---- MODULE Spec2Model ----
(***************************************************************************)
(* A model of streamz/dask.py: the Dask-backed stream operators (map,      *)
(* filter, accumulate, scatter, gather, starmap, buffer) running as        *)
(* cooperative coroutines over a Dask client.                              *)
(*                                                                         *)
(* One activation ("frame") of a node's update is identified by the node   *)
(* and the index of the source item it processes; pc[n][i] is the place    *)
(* where that coroutine is suspended.  A step of the model is the code a   *)
(* coroutine runs between two suspension points.  The Dask client is a     *)
(* table of futures that the cluster finishes or fails at any time.        *)
(***************************************************************************)
EXTENDS Integers, Sequences, FiniteSets, TLC

\* ------------------------------------------------------------ bounds
\* Longest input sequence fed to a pipeline.
MaxItems == 2
\* Input values are drawn from 0..MaxVal.
MaxVal == 2
\* Largest number of sibling branches fed by one emission.
MaxBranches == 3
\* Largest buffer size n of buffer(n).
MaxBuf == 1

VARIABLES
    cfg,      \* the graph: node kinds, downstream links, operator arguments
    inputs,   \* the values the source emits, in order; item i carries token i
    pc,       \* pc[n][i]: where node n's update for item i is
    val,      \* val[n][i]: the x that update received
    outv,     \* outv[n][i]: the value node n passed to _emit for item i
    wait,     \* wait[n][i]: the future the update awaits (or awaited), 0 if none
    nret,     \* nret[n][i]: calls of self._retain_refs made by the update
    nrel,     \* nrel[n][i]: calls of self._release_refs made by the update
    futs,     \* the client's futures, by key 1..Len(futs)
    refs,     \* refs[i]: the reference counter of token i and its callback count
    state,    \* state[n]: accumulate's self.state
    queue,    \* the buffer's queue of items
    cb,       \* the item the buffer's cb loop is emitting, 0 when it waits on get
    sunk      \* sunk[n]: what sink n received, in order

frames == <<pc, val, outv, wait, nret, nrel>>
nodevars == <<state, queue, cb, sunk>>
vars == <<cfg, inputs, pc, val, outv, wait, nret, nrel, futs, refs, state, queue, cb, sunk>>

Nodes == 1..8
Items == DOMAIN inputs

\* ------------------------------------------------------------ values
IntV(n) == [k |-> "int", v |-> <<n>>]
ListV(s) == [k |-> "list", v |-> s]
DictV(s) == [k |-> "dict", v |-> s]
FutV(id) == [k |-> "fut", v |-> <<id>>]
NoneV == [k |-> "none", v |-> <<>>]
ErrV == [k |-> "err", v |-> <<>>]
\* core.no_default, the marker of an accumulate without a start value
NoDefault == [k |-> "no_default", v |-> <<>>]

\* Python truthiness of a resolved value (filter's "if result:")
Truthy(x) ==
    CASE x.k = "int" -> x.v[1] # 0
      [] x.k \in {"list", "dict"} -> Len(x.v) > 0
      [] x.k = "none" -> FALSE
      [] OTHER -> TRUE

RECURSIVE SumInts(_)
SumInts(s) == IF s = <<>> THEN 0 ELSE Head(s).v[1] + SumInts(Tail(s))

AllInts(s) == \A j \in DOMAIN s : s[j].k = "int"

\* ------------------------------------------------------------ the functions bound to the operators
\* map's self.func with its extra positional arguments: f(x, *args) = 2x + sum(args)
func(a) ==
    IF AllInts(a) THEN IntV(2 * a[1].v[1] + SumInts(Tail(a))) ELSE ErrV

\* filter's self.predicate: predicate(x, *args) = (x + sum(args)) % 3
predicate(a) ==
    IF AllInts(a) THEN IntV((a[1].v[1] + SumInts(Tail(a))) % 3) ELSE ErrV

\* accumulate's self.func when it returns the new state: f(s, x) = s + x
binop(a) ==
    IF AllInts(a) THEN IntV(a[1].v[1] + a[2].v[1]) ELSE ErrV

\* accumulate's self.func when returns_state: f(s, x) = (s + x, s * x)
binop_rs(a) ==
    IF AllInts(a) THEN ListV(<<a[1].v[1] + a[2].v[1], a[1].v[1] * a[2].v[1]>>) ELSE ErrV

\* operator.getitem(seq, index)
getitem(a) ==
    IF a[1].k = "list" /\ a[2].k = "int" /\ a[2].v[1] + 1 \in DOMAIN a[1].v
    THEN IntV(a[1].v[a[2].v[1] + 1])
    ELSE ErrV

\* dask.utils.apply(self.func, x, self.kwargs) = self.func(*x), with func(a, b) = a + b
apply(a) ==
    IF a[1].k = "list" /\ Len(a[1].v) = 2 THEN IntV(a[1].v[1] + a[1].v[2]) ELSE ErrV

\* ------------------------------------------------------------ the Dask client
\* A future: the submitted function, its arguments, its status and result,
\* and the frame that created it.
Task(fn, args, n, i) ==
    [fn |-> fn, args |-> args, st |-> "pending", res |-> NoneV, by |-> <<n, i>>]

\* client.submit(fn, *args): a new pending future, returned at once
submit(fn, args, n, i) == Append(futs, Task(fn, args, n, i))

\* the futures a task's arguments refer to
Deps(t) == {t.args[j].v[1] : j \in {j \in DOMAIN t.args : t.args[j].k = "fut"}}

\* an argument as the worker sees it: futures are replaced by their results
ArgVal(a) == IF a.k = "fut" THEN futs[a.v[1]].res ELSE a

\* what the worker computes for a task
Compute(t) ==
    LET a == [j \in DOMAIN t.args |-> ArgVal(t.args[j])]
    IN CASE t.fn = "map.func" -> func(a)
         [] t.fn = "filter.predicate" -> predicate(a)
         [] t.fn = "accumulate.func" -> IF cfg.returns_state THEN binop_rs(a) ELSE binop(a)
         [] t.fn = "getitem" -> getitem(a)
         [] t.fn = "apply" -> apply(a)
         [] OTHER -> ErrV

\* the cluster finishes a task whose dependencies are finished
TaskFinish(id) ==
    /\ futs[id].st = "pending"
    /\ \A d \in Deps(futs[id]) : futs[d].st = "finished"
    /\ Compute(futs[id]).k # "err"
    /\ futs' = [futs EXCEPT ![id].st = "finished", ![id].res = Compute(futs[id])]
    /\ UNCHANGED <<cfg, inputs, frames, refs, nodevars>>

\* the task raises on the worker, or one of its dependencies has failed
TaskFail(id) ==
    /\ futs[id].st = "pending"
    /\ \A d \in Deps(futs[id]) : futs[d].st # "pending"
    /\ futs' = [futs EXCEPT ![id].st = "error"]
    /\ UNCHANGED <<cfg, inputs, frames, refs, nodevars>>

\* ------------------------------------------------------------ the reference counters of the metadata
\* retain(n) on a token's counter
Retain(r, n) == [r EXCEPT !.cnt = @ + n]

\* release(n): the counter drops, and the callback fires when it reaches zero
Release(r, n) ==
    IF r.cnt = 0 \/ n = 0 THEN r
    ELSE IF r.cnt - n <= 0 THEN [cnt |-> 0, ack |-> r.ack + 1]
    ELSE [r EXCEPT !.cnt = @ - n]

\* self._retain_refs(metadata) / self._release_refs(metadata) for item i's token
_retain_refs(i, n) == [refs EXCEPT ![i] = Retain(@, n)]
_release_refs(i, n) == [refs EXCEPT ![i] = Release(@, n)]

\* ------------------------------------------------------------ Stream._emit
Fanout(n) == Cardinality(cfg.down[n])

\* _emit(v) of node n for item i: every downstream update is called with v;
\* the emitting coroutine goes to p.  The emitting node retains the item's
\* token once per downstream update for as long as the emission lasts (the
\* actions below pair each _emit with _retain_refs(i, Fanout(n)) and each
\* completed emission with the release).
CallDown(n, i, p) ==
    [m \in Nodes |-> [j \in Items |->
        IF m = n /\ j = i THEN p
        ELSE IF j = i /\ m \in cfg.down[n] THEN "called"
        ELSE pc[m][j]]]

PassDown(n, i, v) ==
    [m \in Nodes |-> [j \in Items |->
        IF j = i /\ m \in cfg.down[n] THEN v ELSE val[m][j]]]

_emit(n, i, v, p) ==
    /\ pc' = CallDown(n, i, p)
    /\ val' = PassDown(n, i, v)
    /\ outv' = [outv EXCEPT ![n][i] = v]

Done == {"returned", "raised"}

\* the awaited _emit completes when every downstream update has completed
EmitDone(n, i) == \A d \in cfg.down[n] : pc[d][i] \in Done
EmitFailed(n, i) == \E d \in cfg.down[n] : pc[d][i] = "raised"
Outcome(n, i) == IF EmitFailed(n, i) THEN "raised" ELSE "returned"

\* ------------------------------------------------------------ source and sink
\* source.emit(inputs[i], metadata=[{'ref': token i}]), one item after the other
SourceEmit(n, i) ==
    /\ cfg.kind[n] = "source"
    /\ pc[n][i] = "idle"
    /\ IF i = 1 THEN TRUE ELSE pc[n][i - 1] \in Done
    /\ _emit(n, i, inputs[i], "emitting")
    /\ refs' = _retain_refs(i, Fanout(n))
    /\ UNCHANGED <<cfg, inputs, wait, nret, nrel, futs, nodevars>>

SourceReturn(n, i) ==
    /\ cfg.kind[n] = "source"
    /\ pc[n][i] = "emitting"
    /\ EmitDone(n, i)
    /\ pc' = [pc EXCEPT ![n][i] = Outcome(n, i)]
    /\ refs' = _release_refs(i, Fanout(n))
    /\ UNCHANGED <<cfg, inputs, val, outv, wait, nret, nrel, futs, nodevars>>

\* sink.update: the callback runs on the value
SinkUpdate(n, i) ==
    /\ cfg.kind[n] = "sink"
    /\ pc[n][i] = "called"
    /\ sunk' = [sunk EXCEPT ![n] = Append(@, val[n][i])]
    /\ pc' = [pc EXCEPT ![n][i] = "returned"]
    /\ UNCHANGED <<cfg, inputs, val, outv, wait, nret, nrel, futs, refs, state, queue, cb>>

\* sink.update: the callback raises
SinkFail(n, i) ==
    /\ cfg.kind[n] = "sink"
    /\ pc[n][i] = "called"
    /\ pc' = [pc EXCEPT ![n][i] = "raised"]
    /\ UNCHANGED <<cfg, inputs, val, outv, wait, nret, nrel, futs, refs, nodevars>>

\* ------------------------------------------------------------ filter
\* filter.update up to "result = yield client.submit(...)"
FilterUpdate(n, i) ==
    /\ cfg.kind[n] = "filter"
    /\ pc[n][i] = "called"
    /\ refs' = _retain_refs(i, 1)
    /\ nret' = [nret EXCEPT ![n][i] = @ + 1]
    /\ futs' = submit("filter.predicate", <<val[n][i]>> \o cfg.args, n, i)
    /\ wait' = [wait EXCEPT ![n][i] = Len(futs) + 1]
    /\ pc' = [pc EXCEPT ![n][i] = "waiting"]
    /\ UNCHANGED <<cfg, inputs, val, outv, nrel, nodevars>>

\* FilterEmit as a filter that forwards the predicate's handle instead of x
FilterEmit_Handle(n, i) ==
    /\ cfg.kind[n] = "filter"
    /\ pc[n][i] = "waiting"
    /\ futs[wait[n][i]].st = "finished"
    /\ Truthy(futs[wait[n][i]].res)
    /\ _emit(n, i, FutV(wait[n][i]), "emitting")
    /\ refs' = _retain_refs(i, Fanout(n))
    /\ UNCHANGED <<cfg, inputs, wait, nret, nrel, futs, nodevars>>

\* the predicate resolved to a true value: "r = yield self._emit(x, ...)"
FilterEmit(n, i) ==
    /\ cfg.kind[n] = "filter"
    /\ pc[n][i] = "waiting"
    /\ futs[wait[n][i]].st = "finished"
    /\ Truthy(futs[wait[n][i]].res)
    /\ _emit(n, i, val[n][i], "emitting")
    /\ refs' = _retain_refs(i, Fanout(n))
    /\ UNCHANGED <<cfg, inputs, wait, nret, nrel, futs, nodevars>>

\* the predicate resolved to a false value: nothing is emitted; finally: release
FilterDrop(n, i) ==
    /\ cfg.kind[n] = "filter"
    /\ pc[n][i] = "waiting"
    /\ futs[wait[n][i]].st = "finished"
    /\ ~Truthy(futs[wait[n][i]].res)
    /\ refs' = _release_refs(i, 1)
    /\ nrel' = [nrel EXCEPT ![n][i] = @ + 1]
    /\ pc' = [pc EXCEPT ![n][i] = "returned"]
    /\ UNCHANGED <<cfg, inputs, val, outv, wait, nret, futs, nodevars>>

\* FilterFail as a filter without the try/finally: a failed predicate skips the release
FilterFail_NoFinally(n, i) ==
    /\ cfg.kind[n] = "filter"
    /\ pc[n][i] = "waiting"
    /\ futs[wait[n][i]].st = "error"
    /\ pc' = [pc EXCEPT ![n][i] = "raised"]
    /\ UNCHANGED <<cfg, inputs, val, outv, wait, nret, nrel, futs, refs, nodevars>>

\* the predicate's future failed: the yield raises; finally: release
FilterFail(n, i) ==
    /\ cfg.kind[n] = "filter"
    /\ pc[n][i] = "waiting"
    /\ futs[wait[n][i]].st = "error"
    /\ refs' = _release_refs(i, 1)
    /\ nrel' = [nrel EXCEPT ![n][i] = @ + 1]
    /\ pc' = [pc EXCEPT ![n][i] = "raised"]
    /\ UNCHANGED <<cfg, inputs, val, outv, wait, nret, futs, nodevars>>

\* FilterReturn as a filter that starts the emission and returns without
\* yielding on it
FilterReturn_NoAwait(n, i) ==
    /\ cfg.kind[n] = "filter"
    /\ pc[n][i] = "emitting"
    /\ refs' = [refs EXCEPT ![i] = Release(Release(@, Fanout(n)), 1)]
    /\ nrel' = [nrel EXCEPT ![n][i] = @ + 1]
    /\ pc' = [pc EXCEPT ![n][i] = "returned"]
    /\ UNCHANGED <<cfg, inputs, val, outv, wait, nret, futs, nodevars>>

\* FilterReturn as a filter that releases only on the paths that emit nothing
FilterReturn_NoRelease(n, i) ==
    /\ cfg.kind[n] = "filter"
    /\ pc[n][i] = "emitting"
    /\ EmitDone(n, i)
    /\ refs' = _release_refs(i, Fanout(n))
    /\ pc' = [pc EXCEPT ![n][i] = Outcome(n, i)]
    /\ UNCHANGED <<cfg, inputs, val, outv, wait, nret, nrel, futs, nodevars>>

\* the emission completed (or raised): "return r"; finally: release
FilterReturn(n, i) ==
    /\ cfg.kind[n] = "filter"
    /\ pc[n][i] = "emitting"
    /\ EmitDone(n, i)
    /\ refs' = [refs EXCEPT ![i] = Release(Release(@, Fanout(n)), 1)]
    /\ nrel' = [nrel EXCEPT ![n][i] = @ + 1]
    /\ pc' = [pc EXCEPT ![n][i] = Outcome(n, i)]
    /\ UNCHANGED <<cfg, inputs, val, outv, wait, nret, futs, nodevars>>

\* ------------------------------------------------------------ map
\* MapUpdate as a map that submits self.func without its extra arguments
MapUpdate_NoArgs(n, i) ==
    /\ cfg.kind[n] = "map"
    /\ pc[n][i] = "called"
    /\ futs' = submit("map.func", <<val[n][i]>>, n, i)
    /\ _emit(n, i, FutV(Len(futs) + 1), "emitting")
    /\ refs' = _retain_refs(i, Fanout(n))
    /\ UNCHANGED <<cfg, inputs, wait, nret, nrel, nodevars>>

\* MapUpdate as a map that awaits the submitted future before it emits
MapUpdate_Await(n, i) ==
    /\ cfg.kind[n] = "map"
    /\ pc[n][i] = "called"
    /\ futs' = submit("map.func", <<val[n][i]>> \o cfg.args, n, i)
    /\ wait' = [wait EXCEPT ![n][i] = Len(futs) + 1]
    /\ pc' = [pc EXCEPT ![n][i] = "waiting"]
    /\ UNCHANGED <<cfg, inputs, val, outv, nret, nrel, refs, nodevars>>

\* map.update: "result = client.submit(self.func, x, *self.args)" and the
\* start of "await self._emit(result)"
MapUpdate(n, i) ==
    /\ cfg.kind[n] = "map"
    /\ pc[n][i] = "called"
    /\ futs' = submit("map.func", <<val[n][i]>> \o cfg.args, n, i)
    /\ _emit(n, i, FutV(Len(futs) + 1), "emitting")
    /\ refs' = _retain_refs(i, Fanout(n))
    /\ UNCHANGED <<cfg, inputs, wait, nret, nrel, nodevars>>

\* MapReturn as a map that does not await self._emit: it returns while
\* downstream updates still run
MapReturn_NoAwait(n, i) ==
    /\ cfg.kind[n] = "map"
    /\ pc[n][i] = "emitting"
    /\ pc' = [pc EXCEPT ![n][i] = Outcome(n, i)]
    /\ refs' = _release_refs(i, Fanout(n))
    /\ UNCHANGED <<cfg, inputs, val, outv, wait, nret, nrel, futs, nodevars>>

\* map.update: the awaited emission completed, "return"
MapReturn(n, i) ==
    /\ cfg.kind[n] = "map"
    /\ pc[n][i] = "emitting"
    /\ EmitDone(n, i)
    /\ pc' = [pc EXCEPT ![n][i] = Outcome(n, i)]
    /\ refs' = _release_refs(i, Fanout(n))
    /\ UNCHANGED <<cfg, inputs, val, outv, wait, nret, nrel, futs, nodevars>>

\* ------------------------------------------------------------ starmap
\* starmap.update: "result = client.submit(apply, self.func, x, self.kwargs)"
StarmapUpdate(n, i) ==
    /\ cfg.kind[n] = "starmap"
    /\ pc[n][i] = "called"
    /\ futs' = submit("apply", <<val[n][i]>>, n, i)
    /\ _emit(n, i, FutV(Len(futs) + 1), "emitting")
    /\ refs' = _retain_refs(i, Fanout(n))
    /\ UNCHANGED <<cfg, inputs, wait, nret, nrel, nodevars>>

StarmapReturn(n, i) ==
    /\ cfg.kind[n] = "starmap"
    /\ pc[n][i] = "emitting"
    /\ EmitDone(n, i)
    /\ pc' = [pc EXCEPT ![n][i] = Outcome(n, i)]
    /\ refs' = _release_refs(i, Fanout(n))
    /\ UNCHANGED <<cfg, inputs, val, outv, wait, nret, nrel, futs, nodevars>>

\* ------------------------------------------------------------ accumulate
\* a Python tuple (a, b) of values
TupleV(a, b) == [k |-> "tuple", v |-> <<a, b>>]

\* what accumulate emits: the result, or (self.state, result) when with_state
AccOut(st, result) == IF cfg.with_state THEN TupleV(st, result) ELSE result

\* AccFirst as an accumulate that sends the first item to the cluster and
\* keeps and emits the handle
AccFirst_Remote(n, i) ==
    /\ cfg.kind[n] = "accumulate"
    /\ pc[n][i] = "called"
    /\ state[n] = NoDefault
    /\ futs' = Append(futs, [fn |-> "scatter", args |-> <<>>, st |-> "finished",
                             res |-> val[n][i], by |-> <<n, i>>])
    /\ state' = [state EXCEPT ![n] = FutV(Len(futs) + 1)]
    /\ _emit(n, i, AccOut(FutV(Len(futs) + 1), FutV(Len(futs) + 1)), "emitting")
    /\ refs' = _retain_refs(i, Fanout(n))
    /\ UNCHANGED <<cfg, inputs, wait, nret, nrel, queue, cb, sunk>>

\* accumulate.update, "if self.state is core.no_default": the item becomes the state
AccFirst(n, i) ==
    /\ cfg.kind[n] = "accumulate"
    /\ pc[n][i] = "called"
    /\ state[n] = NoDefault
    /\ state' = [state EXCEPT ![n] = val[n][i]]
    /\ _emit(n, i, AccOut(val[n][i], val[n][i]), "emitting")
    /\ refs' = _retain_refs(i, Fanout(n))
    /\ UNCHANGED <<cfg, inputs, wait, nret, nrel, futs, queue, cb, sunk>>

\* the futures accumulate submits for one item: func(state, x) and, when
\* returns_state, getitem(result, 0) and getitem(result, 1)
AccSubmit(n, i) ==
    LET r == Len(futs) + 1
        first == Task("accumulate.func", <<state[n], val[n][i]>>, n, i)
    IN IF cfg.returns_state
       THEN futs \o <<first,
                      Task("getitem", <<FutV(r), IntV(0)>>, n, i),
                      Task("getitem", <<FutV(r), IntV(1)>>, n, i)>>
       ELSE Append(futs, first)

\* AccState as an accumulate that takes element 1 of the pair as its state
AccState_Element1(n, i) == IF cfg.returns_state THEN FutV(Len(futs) + 3) ELSE FutV(Len(futs) + 1)

\* the new self.state among them
AccState(n, i) == IF cfg.returns_state THEN FutV(Len(futs) + 2) ELSE FutV(Len(futs) + 1)

\* the result to emit among them
AccResult(n, i) == IF cfg.returns_state THEN FutV(Len(futs) + 3) ELSE FutV(Len(futs) + 1)

\* AccNext as an accumulate that forgets "self.state = state"
AccNext_StaleState(n, i) ==
    /\ cfg.kind[n] = "accumulate"
    /\ pc[n][i] = "called"
    /\ state[n] # NoDefault
    /\ futs' = AccSubmit(n, i)
    /\ _emit(n, i, AccOut(AccState(n, i), AccResult(n, i)), "emitting")
    /\ refs' = _retain_refs(i, Fanout(n))
    /\ UNCHANGED <<cfg, inputs, wait, nret, nrel, nodevars>>

\* accumulate.update, the else branch: submit, "self.state = state", emit
AccNext(n, i) ==
    /\ cfg.kind[n] = "accumulate"
    /\ pc[n][i] = "called"
    /\ state[n] # NoDefault
    /\ futs' = AccSubmit(n, i)
    /\ state' = [state EXCEPT ![n] = AccState(n, i)]
    /\ _emit(n, i, AccOut(AccState(n, i), AccResult(n, i)), "emitting")
    /\ refs' = _retain_refs(i, Fanout(n))
    /\ UNCHANGED <<cfg, inputs, wait, nret, nrel, queue, cb, sunk>>

\* AccReturn as an accumulate that puts back the state it folded the item
\* into when the emission failed
AccReturn_Rollback(n, i) ==
    /\ cfg.kind[n] = "accumulate"
    /\ pc[n][i] = "emitting"
    /\ EmitDone(n, i)
    /\ pc' = [pc EXCEPT ![n][i] = Outcome(n, i)]
    /\ refs' = _release_refs(i, Fanout(n))
    /\ state' = IF EmitFailed(n, i) /\ futs # <<>>
                THEN [state EXCEPT ![n] =
                        futs[CHOOSE id \in DOMAIN futs :
                            futs[id].by = <<n, i>> /\ futs[id].fn = "accumulate.func"].args[1]]
                ELSE state
    /\ UNCHANGED <<cfg, inputs, val, outv, wait, nret, nrel, futs, queue, cb, sunk>>

\* the awaited emission completed or raised: update returns or raises
AccReturn(n, i) ==
    /\ cfg.kind[n] = "accumulate"
    /\ pc[n][i] = "emitting"
    /\ EmitDone(n, i)
    /\ pc' = [pc EXCEPT ![n][i] = Outcome(n, i)]
    /\ refs' = _release_refs(i, Fanout(n))
    /\ UNCHANGED <<cfg, inputs, val, outv, wait, nret, nrel, futs, nodevars>>

\* ------------------------------------------------------------ scatter
\* the elements of a list or a mapping, as client.scatter sees them
Elements(x) == [j \in DOMAIN x.v |-> IntV(x.v[j])]

\* ScatterData as a scatter that hands x itself to client.scatter, which
\* scatters the elements of a list or a mapping one by one
ScatterData_Unwrapped(x) == IF x.k \in {"list", "dict"} THEN Elements(x) ELSE <<x>>

\* the data handed to client.scatter: the one-element list [x]
ScatterData(x) == <<x>>

\* client.scatter(data): one finished future per element of data
client_scatter(data, n, i) ==
    futs \o [j \in DOMAIN data |->
        [fn |-> "scatter", args |-> <<>>, st |-> "finished", res |-> data[j], by |-> <<n, i>>]]

\* scatter.update up to "await client.scatter([x], ...)"
ScatterUpdate(n, i) ==
    /\ cfg.kind[n] = "scatter"
    /\ pc[n][i] = "called"
    /\ refs' = _retain_refs(i, 1)
    /\ nret' = [nret EXCEPT ![n][i] = @ + 1]
    /\ pc' = [pc EXCEPT ![n][i] = "scattering"]
    /\ UNCHANGED <<cfg, inputs, val, outv, wait, nrel, futs, nodevars>>

\* the transfer completed: "future = future_as_list[0]", "await self._emit(future)"
ScatterEmit(n, i) ==
    /\ cfg.kind[n] = "scatter"
    /\ pc[n][i] = "scattering"
    /\ futs' = client_scatter(ScatterData(val[n][i]), n, i)
    /\ _emit(n, i, FutV(Len(futs) + 1), "emitting")
    /\ refs' = _retain_refs(i, Fanout(n))
    /\ UNCHANGED <<cfg, inputs, wait, nret, nrel, nodevars>>

\* the transfer raised: the exception leaves update
ScatterFail(n, i) ==
    /\ cfg.kind[n] = "scatter"
    /\ pc[n][i] = "scattering"
    /\ pc' = [pc EXCEPT ![n][i] = "raised"]
    /\ UNCHANGED <<cfg, inputs, val, outv, wait, nret, nrel, futs, refs, nodevars>>

\* the emission completed: "self._release_refs(metadata)", "return f"
ScatterReturn(n, i) ==
    /\ cfg.kind[n] = "scatter"
    /\ pc[n][i] = "emitting"
    /\ EmitDone(n, i)
    /\ ~EmitFailed(n, i)
    /\ refs' = [refs EXCEPT ![i] = Release(Release(@, Fanout(n)), 1)]
    /\ nrel' = [nrel EXCEPT ![n][i] = @ + 1]
    /\ pc' = [pc EXCEPT ![n][i] = "returned"]
    /\ UNCHANGED <<cfg, inputs, val, outv, wait, nret, futs, nodevars>>

\* the emission raised: the exception leaves update before the release
ScatterEmitFail(n, i) ==
    /\ cfg.kind[n] = "scatter"
    /\ pc[n][i] = "emitting"
    /\ EmitDone(n, i)
    /\ EmitFailed(n, i)
    /\ refs' = _release_refs(i, Fanout(n))
    /\ pc' = [pc EXCEPT ![n][i] = "raised"]
    /\ UNCHANGED <<cfg, inputs, val, outv, wait, nret, nrel, futs, nodevars>>

\* ------------------------------------------------------------ gather
\* the futures inside a value (a future, or a tuple holding futures)
FutsIn(x) ==
    CASE x.k = "fut" -> {x.v[1]}
      [] x.k = "tuple" -> {x.v[j].v[1] : j \in {j \in DOMAIN x.v : x.v[j].k = "fut"}}
      [] OTHER -> {}

\* client.gather(x): the futures of x replaced by their results
Gathered(x) ==
    CASE x.k = "fut" -> futs[x.v[1]].res
      [] x.k = "tuple" -> [x EXCEPT !.v = [j \in DOMAIN x.v |-> ArgVal(x.v[j])]]
      [] OTHER -> x

\* gather.update up to "await client.gather(x, asynchronous=True)"
GatherUpdate(n, i) ==
    /\ cfg.kind[n] = "gather"
    /\ pc[n][i] = "called"
    /\ refs' = _retain_refs(i, 1)
    /\ nret' = [nret EXCEPT ![n][i] = @ + 1]
    /\ wait' = [wait EXCEPT ![n][i] = IF val[n][i].k = "fut" THEN val[n][i].v[1] ELSE 0]
    /\ pc' = [pc EXCEPT ![n][i] = "waiting"]
    /\ UNCHANGED <<cfg, inputs, val, outv, nrel, futs, nodevars>>

\* GatherEmit as a gather that does not wait for the resolution and emits
\* what the handle holds at the time
GatherEmit_NoWait(n, i) ==
    /\ cfg.kind[n] = "gather"
    /\ pc[n][i] = "waiting"
    /\ _emit(n, i, Gathered(val[n][i]), "emitting")
    /\ refs' = _retain_refs(i, Fanout(n))
    /\ UNCHANGED <<cfg, inputs, wait, nret, nrel, futs, nodevars>>

\* GatherEmit as a gather that emits the handle it received once the handle
\* has finished, not the value the handle resolved to
GatherEmit_Handle(n, i) ==
    /\ cfg.kind[n] = "gather"
    /\ pc[n][i] = "waiting"
    /\ \A f \in FutsIn(val[n][i]) : futs[f].st = "finished"
    /\ _emit(n, i, val[n][i], "emitting")
    /\ refs' = _retain_refs(i, Fanout(n))
    /\ UNCHANGED <<cfg, inputs, wait, nret, nrel, futs, nodevars>>

\* GatherEmit as a gather that releases the tokens as soon as the result is
\* there, before it emits
GatherEmit_ReleaseFirst(n, i) ==
    /\ cfg.kind[n] = "gather"
    /\ pc[n][i] = "waiting"
    /\ \A f \in FutsIn(val[n][i]) : futs[f].st = "finished"
    /\ _emit(n, i, Gathered(val[n][i]), "emitting")
    /\ refs' = [refs EXCEPT ![i] = Retain(Release(@, 1), Fanout(n))]
    /\ nrel' = [nrel EXCEPT ![n][i] = @ + 1]
    /\ UNCHANGED <<cfg, inputs, wait, nret, futs, nodevars>>

\* every future of x finished: "result2 = await self._emit(result)"
GatherEmit(n, i) ==
    /\ cfg.kind[n] = "gather"
    /\ pc[n][i] = "waiting"
    /\ \A f \in FutsIn(val[n][i]) : futs[f].st = "finished"
    /\ _emit(n, i, Gathered(val[n][i]), "emitting")
    /\ refs' = _retain_refs(i, Fanout(n))
    /\ UNCHANGED <<cfg, inputs, wait, nret, nrel, futs, nodevars>>

\* a future of x failed: client.gather raises and the exception leaves update
GatherFail(n, i) ==
    /\ cfg.kind[n] = "gather"
    /\ pc[n][i] = "waiting"
    /\ \E f \in FutsIn(val[n][i]) : futs[f].st = "error"
    /\ pc' = [pc EXCEPT ![n][i] = "raised"]
    /\ UNCHANGED <<cfg, inputs, val, outv, wait, nret, nrel, futs, refs, nodevars>>

\* the emission completed: "self._release_refs(metadata)", "return result2"
GatherReturn(n, i) ==
    /\ cfg.kind[n] = "gather"
    /\ pc[n][i] = "emitting"
    /\ EmitDone(n, i)
    /\ ~EmitFailed(n, i)
    /\ refs' = [refs EXCEPT ![i] = Release(Release(@, Fanout(n)), 1)]
    /\ nrel' = [nrel EXCEPT ![n][i] = @ + 1]
    /\ pc' = [pc EXCEPT ![n][i] = "returned"]
    /\ UNCHANGED <<cfg, inputs, val, outv, wait, nret, futs, nodevars>>

\* the emission raised: the exception leaves update before the release
GatherEmitFail(n, i) ==
    /\ cfg.kind[n] = "gather"
    /\ pc[n][i] = "emitting"
    /\ EmitDone(n, i)
    /\ EmitFailed(n, i)
    /\ refs' = _release_refs(i, Fanout(n))
    /\ pc' = [pc EXCEPT ![n][i] = "raised"]
    /\ UNCHANGED <<cfg, inputs, val, outv, wait, nret, nrel, futs, nodevars>>

\* ------------------------------------------------------------ buffer
\* buffer.update: retain and put on the bounded queue; the put waits while
\* the queue is full
BufferUpdate(n, i) ==
    /\ cfg.kind[n] = "buffer"
    /\ pc[n][i] = "called"
    /\ refs' = _retain_refs(i, 1)
    /\ nret' = [nret EXCEPT ![n][i] = @ + 1]
    /\ IF Len(queue) < cfg.n
       THEN queue' = Append(queue, i) /\ pc' = [pc EXCEPT ![n][i] = "returned"]
       ELSE queue' = queue /\ pc' = [pc EXCEPT ![n][i] = "putting"]
    /\ UNCHANGED <<cfg, inputs, val, outv, wait, nrel, futs, state, cb, sunk>>

\* a waiting put goes through once the queue has room
BufferPut(n, i) ==
    /\ cfg.kind[n] = "buffer"
    /\ pc[n][i] = "putting"
    /\ Len(queue) < cfg.n
    /\ queue' = Append(queue, i)
    /\ pc' = [pc EXCEPT ![n][i] = "returned"]
    /\ UNCHANGED <<cfg, inputs, val, outv, wait, nret, nrel, futs, refs, state, cb, sunk>>

\* buffer.cb: take the oldest item off the queue and emit it
BufferGet(n) ==
    /\ cfg.kind[n] = "buffer"
    /\ cb = 0
    /\ queue # <<>>
    /\ cb' = Head(queue)
    /\ queue' = Tail(queue)
    /\ _emit(n, Head(queue), val[n][Head(queue)], pc[n][Head(queue)])
    /\ refs' = _retain_refs(Head(queue), Fanout(n))
    /\ UNCHANGED <<cfg, inputs, wait, nret, nrel, futs, state, sunk>>

\* buffer.cb: the emission completed; release and loop
BufferCbDone(n) ==
    /\ cfg.kind[n] = "buffer"
    /\ cb # 0
    /\ EmitDone(n, cb)
    /\ refs' = [refs EXCEPT ![cb] = Release(Release(@, Fanout(n)), 1)]
    /\ nrel' = [nrel EXCEPT ![n][cb] = @ + 1]
    /\ cb' = 0
    /\ UNCHANGED <<cfg, inputs, pc, val, outv, wait, nret, futs, state, queue, sunk>>

\* ------------------------------------------------------------ initial states
InputSeqs(S, n) == UNION {[1..m -> S] : m \in 1..n}
IntInputs == InputSeqs({IntV(x) : x \in 0..MaxVal}, MaxItems)
Extras == {<<>>, <<IntV(1)>>}

Graph(kind, down, args, start, rs, ws, n) ==
    [kind |-> kind, down |-> down, args |-> args, start |-> start,
     returns_state |-> rs, with_state |-> ws, n |-> n]

\* a chain of nodes: kinds[j] feeds kinds[j + 1]
Chain(kinds) ==
    [kind |-> [m \in Nodes |-> IF m \in DOMAIN kinds THEN kinds[m] ELSE "none"],
     down |-> [m \in Nodes |-> IF m + 1 \in DOMAIN kinds THEN {m + 1} ELSE {}]]

\* the state after the graph is built and before the first item is emitted
Fresh ==
    /\ pc = [m \in Nodes |-> [j \in Items |-> "idle"]]
    /\ val = [m \in Nodes |-> [j \in Items |-> NoneV]]
    /\ outv = [m \in Nodes |-> [j \in Items |-> NoneV]]
    /\ wait = [m \in Nodes |-> [j \in Items |-> 0]]
    /\ nret = [m \in Nodes |-> [j \in Items |-> 0]]
    /\ nrel = [m \in Nodes |-> [j \in Items |-> 0]]
    /\ futs = <<>>
    /\ refs = [j \in Items |-> [cnt |-> 0, ack |-> 0]]
    /\ state = [m \in Nodes |-> cfg.start]
    /\ queue = <<>>
    /\ cb = 0
    /\ sunk = [m \in Nodes |-> <<>>]

\* ------------------------------------------------------------ source -> filter -> sink
FilterChain == Chain(<<"source", "filter", "sink">>)

InitFilter ==
    /\ inputs \in IntInputs
    /\ \E a \in Extras :
        cfg = Graph(FilterChain.kind, FilterChain.down, a, NoDefault, FALSE, FALSE, 0)
    /\ Fresh

NextFilter ==
    \/ \E n \in Nodes, i \in Items : SourceEmit(n, i)
    \/ \E n \in Nodes, i \in Items : SourceReturn(n, i)
    \/ \E n \in Nodes, i \in Items : FilterUpdate(n, i)
    \/ \E n \in Nodes, i \in Items : FilterEmit(n, i)
    \/ \E n \in Nodes, i \in Items : FilterDrop(n, i)
    \/ \E n \in Nodes, i \in Items : FilterFail(n, i)
    \/ \E n \in Nodes, i \in Items : FilterReturn(n, i)
    \/ \E n \in Nodes, i \in Items : SinkUpdate(n, i)
    \/ \E n \in Nodes, i \in Items : SinkFail(n, i)
    \/ \E id \in DOMAIN futs : TaskFinish(id)
    \/ \E id \in DOMAIN futs : TaskFail(id)

SpecFilter == InitFilter /\ [][NextFilter]_vars

\* ------------------------------------------------------------ source -> map -> k sibling branches
\* the map's emission fans out to k branches, the first nf of them filters and
\* the others gathers
FanKind(k, nf) ==
    [m \in Nodes |->
        CASE m = 1 -> "source"
          [] m = 2 -> "map"
          [] m \in 3..(2 + nf) -> "filter"
          [] m \in (3 + nf)..(2 + k) -> "gather"
          [] OTHER -> "none"]

FanDown(k) ==
    [m \in Nodes |-> CASE m = 1 -> {2} [] m = 2 -> 3..(2 + k) [] OTHER -> {}]

InitFan ==
    /\ inputs \in InputSeqs({IntV(x) : x \in 0..MaxVal}, 1)
    /\ \E k \in 1..MaxBranches, nf \in 0..MaxBranches, a \in Extras :
        /\ nf <= k
        /\ cfg = Graph(FanKind(k, nf), FanDown(k), a, NoDefault, FALSE, FALSE, 0)
    /\ Fresh

NextFan ==
    \/ \E n \in Nodes, i \in Items : SourceEmit(n, i)
    \/ \E n \in Nodes, i \in Items : SourceReturn(n, i)
    \/ \E n \in Nodes, i \in Items : MapUpdate(n, i)
    \/ \E n \in Nodes, i \in Items : MapReturn(n, i)
    \/ \E n \in Nodes, i \in Items : FilterUpdate(n, i)
    \/ \E n \in Nodes, i \in Items : FilterEmit(n, i)
    \/ \E n \in Nodes, i \in Items : FilterDrop(n, i)
    \/ \E n \in Nodes, i \in Items : FilterFail(n, i)
    \/ \E n \in Nodes, i \in Items : FilterReturn(n, i)
    \/ \E n \in Nodes, i \in Items : GatherUpdate(n, i)
    \/ \E n \in Nodes, i \in Items : GatherEmit(n, i)
    \/ \E n \in Nodes, i \in Items : GatherFail(n, i)
    \/ \E n \in Nodes, i \in Items : GatherReturn(n, i)
    \/ \E id \in DOMAIN futs : TaskFinish(id)
    \/ \E id \in DOMAIN futs : TaskFail(id)

SpecFan == InitFan /\ [][NextFan]_vars

\* ------------------------------------------------------------ source -> scatter -> map -> gather -> sink
PipeChain == Chain(<<"source", "scatter", "map", "gather", "sink">>)

InitPipe ==
    /\ inputs \in IntInputs
    /\ \E a \in Extras :
        cfg = Graph(PipeChain.kind, PipeChain.down, a, NoDefault, FALSE, FALSE, 0)
    /\ Fresh

NextPipe ==
    \/ \E n \in Nodes, i \in Items : SourceEmit(n, i)
    \/ \E n \in Nodes, i \in Items : SourceReturn(n, i)
    \/ \E n \in Nodes, i \in Items : ScatterUpdate(n, i)
    \/ \E n \in Nodes, i \in Items : ScatterEmit(n, i)
    \/ \E n \in Nodes, i \in Items : ScatterFail(n, i)
    \/ \E n \in Nodes, i \in Items : ScatterReturn(n, i)
    \/ \E n \in Nodes, i \in Items : ScatterEmitFail(n, i)
    \/ \E n \in Nodes, i \in Items : MapUpdate(n, i)
    \/ \E n \in Nodes, i \in Items : MapReturn(n, i)
    \/ \E n \in Nodes, i \in Items : GatherUpdate(n, i)
    \/ \E n \in Nodes, i \in Items : GatherEmit(n, i)
    \/ \E n \in Nodes, i \in Items : GatherFail(n, i)
    \/ \E n \in Nodes, i \in Items : GatherReturn(n, i)
    \/ \E n \in Nodes, i \in Items : GatherEmitFail(n, i)
    \/ \E n \in Nodes, i \in Items : SinkUpdate(n, i)
    \/ \E n \in Nodes, i \in Items : SinkFail(n, i)
    \/ \E id \in DOMAIN futs : TaskFinish(id)
    \/ \E id \in DOMAIN futs : TaskFail(id)

SpecPipe == InitPipe /\ [][NextPipe]_vars

\* the same pipeline fed MaxItems + 1 items, func taking no extra argument
InitLinear ==
    /\ inputs \in [1..(MaxItems + 1) -> {IntV(x) : x \in 1..3}]
    /\ cfg = Graph(PipeChain.kind, PipeChain.down, <<>>, NoDefault, FALSE, FALSE, 0)
    /\ Fresh

SpecLinear == InitLinear /\ [][NextPipe]_vars

\* ------------------------------------------------------------ source -> scatter -> gather -> sink
RoundTripChain == Chain(<<"source", "scatter", "gather", "sink">>)

\* local values: ints, a list and a mapping
LocalValues ==
    {IntV(x) : x \in 0..MaxVal} \cup {ListV(<<1, 2>>), ListV(<<0>>), DictV(<<2, 1>>)}

InitRoundTrip ==
    /\ inputs \in InputSeqs(LocalValues, MaxItems)
    /\ cfg = Graph(RoundTripChain.kind, RoundTripChain.down, <<>>, NoDefault, FALSE, FALSE, 0)
    /\ Fresh

NextRoundTrip ==
    \/ \E n \in Nodes, i \in Items : SourceEmit(n, i)
    \/ \E n \in Nodes, i \in Items : SourceReturn(n, i)
    \/ \E n \in Nodes, i \in Items : ScatterUpdate(n, i)
    \/ \E n \in Nodes, i \in Items : ScatterEmit(n, i)
    \/ \E n \in Nodes, i \in Items : ScatterFail(n, i)
    \/ \E n \in Nodes, i \in Items : ScatterReturn(n, i)
    \/ \E n \in Nodes, i \in Items : ScatterEmitFail(n, i)
    \/ \E n \in Nodes, i \in Items : GatherUpdate(n, i)
    \/ \E n \in Nodes, i \in Items : GatherEmit(n, i)
    \/ \E n \in Nodes, i \in Items : GatherReturn(n, i)
    \/ \E n \in Nodes, i \in Items : GatherEmitFail(n, i)
    \/ \E n \in Nodes, i \in Items : SinkUpdate(n, i)
    \/ \E n \in Nodes, i \in Items : SinkFail(n, i)

SpecRoundTrip == InitRoundTrip /\ [][NextRoundTrip]_vars

\* ------------------------------------------------------------ source -> accumulate -> gather -> sink
FoldChain == Chain(<<"source", "accumulate", "gather", "sink">>)

\* accumulate(func): no start value, func returns the new state
InitFold ==
    /\ inputs \in [1..(MaxItems + 1) -> {IntV(x) : x \in 1..3}]
    /\ cfg = Graph(FoldChain.kind, FoldChain.down, <<>>, NoDefault, FALSE, FALSE, 0)
    /\ Fresh

NextFold ==
    \/ \E n \in Nodes, i \in Items : SourceEmit(n, i)
    \/ \E n \in Nodes, i \in Items : SourceReturn(n, i)
    \/ \E n \in Nodes, i \in Items : AccFirst(n, i)
    \/ \E n \in Nodes, i \in Items : AccNext(n, i)
    \/ \E n \in Nodes, i \in Items : AccReturn(n, i)
    \/ \E n \in Nodes, i \in Items : GatherUpdate(n, i)
    \/ \E n \in Nodes, i \in Items : GatherEmit(n, i)
    \/ \E n \in Nodes, i \in Items : GatherFail(n, i)
    \/ \E n \in Nodes, i \in Items : GatherReturn(n, i)
    \/ \E n \in Nodes, i \in Items : GatherEmitFail(n, i)
    \/ \E n \in Nodes, i \in Items : SinkUpdate(n, i)
    \/ \E n \in Nodes, i \in Items : SinkFail(n, i)
    \/ \E id \in DOMAIN futs : TaskFinish(id)
    \/ \E id \in DOMAIN futs : TaskFail(id)

SpecFold == InitFold /\ [][NextFold]_vars

\* accumulate(func, start=..., returns_state=..., with_state=...): with and
\* without a start value, every combination of the two flags
StartValues == {NoDefault, IntV(0)}

InitFoldOpts ==
    /\ inputs \in [1..MaxItems -> {IntV(2), IntV(3)}]
    /\ \E st \in StartValues, rs \in BOOLEAN, ws \in BOOLEAN :
        cfg = Graph(FoldChain.kind, FoldChain.down, <<>>, st, rs, ws, 0)
    /\ Fresh

SpecFoldOpts == InitFoldOpts /\ [][NextFold]_vars

\* ------------------------------------------------------------ source -> scatter -> map -> filter -> gather -> sink
\* the pipeline on a cluster where every transfer and task completes and the
\* sink returns; the event loop runs every coroutine that can run and the
\* cluster finishes every task it holds
LiveChain == Chain(<<"source", "scatter", "map", "filter", "gather", "sink">>)

InitLive ==
    /\ inputs \in IntInputs
    /\ cfg = Graph(LiveChain.kind, LiveChain.down, <<>>, NoDefault, FALSE, FALSE, 0)
    /\ Fresh

NextLive ==
    \/ \E n \in Nodes, i \in Items : SourceEmit(n, i)
    \/ \E n \in Nodes, i \in Items : SourceReturn(n, i)
    \/ \E n \in Nodes, i \in Items : ScatterUpdate(n, i)
    \/ \E n \in Nodes, i \in Items : ScatterEmit(n, i)
    \/ \E n \in Nodes, i \in Items : ScatterReturn(n, i)
    \/ \E n \in Nodes, i \in Items : MapUpdate(n, i)
    \/ \E n \in Nodes, i \in Items : MapReturn(n, i)
    \/ \E n \in Nodes, i \in Items : FilterUpdate(n, i)
    \/ \E n \in Nodes, i \in Items : FilterEmit(n, i)
    \/ \E n \in Nodes, i \in Items : FilterDrop(n, i)
    \/ \E n \in Nodes, i \in Items : FilterReturn(n, i)
    \/ \E n \in Nodes, i \in Items : GatherUpdate(n, i)
    \/ \E n \in Nodes, i \in Items : GatherEmit(n, i)
    \/ \E n \in Nodes, i \in Items : GatherReturn(n, i)
    \/ \E n \in Nodes, i \in Items : SinkUpdate(n, i)
    \/ \E id \in DOMAIN futs : TaskFinish(id)

SpecLive == InitLive /\ [][NextLive]_vars /\ WF_vars(NextLive)

\* ------------------------------------------------------------ every operator in one chain
AllChain ==
    Chain(<<"source", "scatter", "starmap", "map", "filter", "accumulate", "gather", "sink">>)

\* the source emits pairs, which starmap unpacks
PairInputs == InputSeqs({ListV(<<a, 1>>) : a \in 0..MaxVal}, MaxItems)

InitAll ==
    /\ inputs \in PairInputs
    /\ cfg = Graph(AllChain.kind, AllChain.down, <<>>, NoDefault, FALSE, FALSE, 0)
    /\ Fresh

NextAll ==
    \/ \E n \in Nodes, i \in Items : SourceEmit(n, i)
    \/ \E n \in Nodes, i \in Items : SourceReturn(n, i)
    \/ \E n \in Nodes, i \in Items : ScatterUpdate(n, i)
    \/ \E n \in Nodes, i \in Items : ScatterEmit(n, i)
    \/ \E n \in Nodes, i \in Items : ScatterFail(n, i)
    \/ \E n \in Nodes, i \in Items : ScatterReturn(n, i)
    \/ \E n \in Nodes, i \in Items : ScatterEmitFail(n, i)
    \/ \E n \in Nodes, i \in Items : StarmapUpdate(n, i)
    \/ \E n \in Nodes, i \in Items : StarmapReturn(n, i)
    \/ \E n \in Nodes, i \in Items : MapUpdate(n, i)
    \/ \E n \in Nodes, i \in Items : MapReturn(n, i)
    \/ \E n \in Nodes, i \in Items : AccFirst(n, i)
    \/ \E n \in Nodes, i \in Items : AccNext(n, i)
    \/ \E n \in Nodes, i \in Items : AccReturn(n, i)
    \/ \E n \in Nodes, i \in Items : FilterUpdate(n, i)
    \/ \E n \in Nodes, i \in Items : FilterEmit(n, i)
    \/ \E n \in Nodes, i \in Items : FilterDrop(n, i)
    \/ \E n \in Nodes, i \in Items : FilterFail(n, i)
    \/ \E n \in Nodes, i \in Items : FilterReturn(n, i)
    \/ \E n \in Nodes, i \in Items : GatherUpdate(n, i)
    \/ \E n \in Nodes, i \in Items : GatherEmit(n, i)
    \/ \E n \in Nodes, i \in Items : GatherFail(n, i)
    \/ \E n \in Nodes, i \in Items : GatherReturn(n, i)
    \/ \E n \in Nodes, i \in Items : GatherEmitFail(n, i)
    \/ \E n \in Nodes, i \in Items : SinkUpdate(n, i)
    \/ \E n \in Nodes, i \in Items : SinkFail(n, i)
    \/ \E id \in DOMAIN futs : TaskFinish(id)
    \/ \E id \in DOMAIN futs : TaskFail(id)

SpecAll == InitAll /\ [][NextAll]_vars

\* ------------------------------------------------------------ source -> map -> buffer(n) -> gather
BufferChain == Chain(<<"source", "map", "buffer", "gather">>)

\* enough items to fill the buffer and every place before and after it
InitBuffer ==
    /\ \E n \in 1..MaxBuf :
        /\ cfg = Graph(BufferChain.kind, BufferChain.down, <<>>, NoDefault, FALSE, FALSE, n)
        /\ inputs = [j \in 1..(n + 3) |-> IntV(1)]
    /\ Fresh

NextBuffer ==
    \/ \E n \in Nodes, i \in Items : SourceEmit(n, i)
    \/ \E n \in Nodes, i \in Items : SourceReturn(n, i)
    \/ \E n \in Nodes, i \in Items : MapUpdate(n, i)
    \/ \E n \in Nodes, i \in Items : MapReturn(n, i)
    \/ \E n \in Nodes, i \in Items : BufferUpdate(n, i)
    \/ \E n \in Nodes, i \in Items : BufferPut(n, i)
    \/ \E n \in Nodes : BufferGet(n)
    \/ \E n \in Nodes : BufferCbDone(n)
    \/ \E n \in Nodes, i \in Items : GatherUpdate(n, i)
    \/ \E n \in Nodes, i \in Items : GatherEmit(n, i)
    \/ \E n \in Nodes, i \in Items : GatherFail(n, i)
    \/ \E n \in Nodes, i \in Items : GatherReturn(n, i)
    \/ \E id \in DOMAIN futs : TaskFinish(id)
    \/ \E id \in DOMAIN futs : TaskFail(id)

SpecBuffer == InitBuffer /\ [][NextBuffer]_vars

\* ------------------------------------------------------------ properties of the filter
IsKind(n, k) == cfg.kind[n] = k
Emitted(n, i) == outv[n][i] # NoneV

\* the predicate applied locally to the item the filter received
LocalPredicate(n, i) == predicate(<<ArgVal(val[n][i])>> \o cfg.args)

\* C3: on every exit path of filter.update (predicate true, predicate false,
\* predicate fails, emission fails) the tokens retained at entry are released
\* exactly once: one retain while the update runs, one retain and one release
\* once it has exited.
C3_FilterReleasesOnEveryExit ==
    \A n \in Nodes, i \in Items : IsKind(n, "filter") =>
        /\ pc[n][i] \in {"idle", "called"} => nret[n][i] = 0 /\ nrel[n][i] = 0
        /\ pc[n][i] \in {"waiting", "emitting"} => nret[n][i] = 1 /\ nrel[n][i] = 0
        /\ pc[n][i] \in Done => nret[n][i] = 1 /\ nrel[n][i] = 1

\* a run where one item left the filter by a failed predicate and another by
\* a failed emission, both with their tokens released
C3_Witness ==
    \E n \in Nodes, i, j \in Items :
        /\ IsKind(n, "filter")
        /\ pc[n][i] = "raised" /\ futs[wait[n][i]].st = "error" /\ nrel[n][i] = 1
        /\ pc[n][j] = "raised" /\ Emitted(n, j) /\ nrel[n][j] = 1

\* C4: an item is emitted by the filter if and only if predicate(x, extras)
\* is true; the emitted value is the input x itself and reaches the
\* downstream node; when the predicate is false no downstream node is called.
C4_FilterForwardsIffPredicate ==
    \A n \in Nodes, i \in Items : IsKind(n, "filter") =>
        /\ Emitted(n, i) =>
            /\ Truthy(LocalPredicate(n, i))
            /\ futs[wait[n][i]].st = "finished"
            /\ outv[n][i] = val[n][i]
            /\ \A d \in cfg.down[n] : pc[d][i] # "idle" /\ val[d][i] = val[n][i]
        /\ ~Emitted(n, i) => \A d \in cfg.down[n] : pc[d][i] = "idle"
        /\ (pc[n][i] \in Done /\ futs[wait[n][i]].st = "finished") =>
            (Emitted(n, i) <=> Truthy(LocalPredicate(n, i)))

\* a run where the filter dropped one item and forwarded another to the sink
C4_Witness ==
    \E n \in Nodes, i, j \in Items :
        /\ IsKind(n, "filter")
        /\ pc[n][i] = "returned" /\ ~Emitted(n, i)
        /\ pc[n][j] = "returned" /\ Emitted(n, j)
        /\ \E d \in cfg.down[n] : sunk[d] = <<val[n][j]>>

\* ------------------------------------------------------------ properties of the fan-out
\* the operators that retain the tokens of the item they process
Retainers == {n \in Nodes : cfg.kind[n] \in {"filter", "gather", "scatter", "buffer"}}
Holds(n, i) == nret[n][i] > nrel[n][i]
Sources == {n \in Nodes : IsKind(n, "source")}

\* C1: a token retained by k sibling branches is acknowledged at most once,
\* never while a branch still runs or holds a retain, and exactly once when
\* the emission that fanned it out has completed with every branch having
\* released what it retained.
C1_AckOnceAfterAllRelease ==
    \A i \in Items :
        /\ refs[i].ack <= 1
        /\ refs[i].ack = 1 =>
            \A b \in Retainers : pc[b][i] \in Done /\ ~Holds(b, i)
        /\ (\A s \in Sources : pc[s][i] = "returned") => refs[i].ack = 1
        /\ ((\A s \in Sources : pc[s][i] \in Done)
                /\ \A b \in Retainers : nret[b][i] = 1 /\ nrel[b][i] = 1) =>
            refs[i].ack = 1

\* three branches, filters and gathers together, have all released and the
\* token is acknowledged
C1_Witness ==
    \E i \in Items :
        /\ refs[i].ack = 1
        /\ Cardinality(Retainers) = 3
        /\ \E b \in Retainers : IsKind(b, "filter")
        /\ \E b \in Retainers : IsKind(b, "gather")
        /\ \A b \in Retainers : nret[b][i] = 1 /\ nrel[b][i] = 1

\* C5: once the update of a node that emitted an item has returned (or
\* raised), every downstream branch it emitted to has finished with that item.
C5_Backpressure ==
    \A n \in Nodes, i \in Items :
        (pc[n][i] \in Done /\ Emitted(n, i) /\ ~IsKind(n, "buffer")) =>
            \A d \in cfg.down[n] : pc[d][i] \in Done

\* a map with several branches of different kinds has returned
C5_Witness ==
    \E n \in Nodes, i \in Items :
        /\ IsKind(n, "map")
        /\ pc[n][i] = "returned"
        /\ \E d \in cfg.down[n] : IsKind(d, "filter")
        /\ \E d \in cfg.down[n] : IsKind(d, "gather")

\* ------------------------------------------------------------ properties of the boundary operators
Boundary == {n \in Nodes : cfg.kind[n] \in {"scatter", "gather"}}

\* C2: when scatter.update or gather.update has exited, also by a failure of
\* the remote call or of the emission, it has released what it retained, and
\* once the source's emit of the item has ended the item's counter is zero.
C2_ReleasedOnFailure ==
    \A i \in Items :
        /\ \A n \in Boundary : pc[n][i] \in Done => nrel[n][i] = nret[n][i]
        /\ (\A s \in Sources : pc[s][i] \in Done) => refs[i].cnt = 0

\* the futures a frame created
MadeBy(n, i) == {id \in DOMAIN futs : futs[id].by = <<n, i>>}

\* C7: for every item the map has taken, there is exactly one submission, of
\* (func, x, extras); the value passed downstream is the handle of that
\* submission; and once resolved the handle holds func applied to x and the
\* extras.
C7_MapSubmitsOnceAndResolves ==
    \A n \in Nodes, i \in Items : IsKind(n, "map") =>
        IF pc[n][i] \in {"idle", "called"}
        THEN MadeBy(n, i) = {} /\ ~Emitted(n, i)
        ELSE /\ Cardinality(MadeBy(n, i)) = 1
             /\ \A id \in MadeBy(n, i) :
                /\ outv[n][i] = FutV(id)
                /\ \A d \in cfg.down[n] : val[d][i] = FutV(id)
                /\ futs[id].fn = "map.func"
                /\ futs[id].args = <<val[n][i]>> \o cfg.args
                /\ futs[id].st = "finished" =>
                    futs[id].res = func(<<ArgVal(val[n][i])>> \o cfg.args)

\* the map got an extra argument, its handle resolved, and the sink received
\* func(x, extra) for x = 2
C7_Witness ==
    \E n \in Nodes, i \in Items :
        /\ IsKind(n, "map")
        /\ cfg.args # <<>>
        /\ inputs[i] = IntV(2)
        /\ pc[n][i] = "returned"
        /\ \E s \in Nodes : IsKind(s, "sink") /\ pc[s][i] = "returned" /\ val[s][i] = IntV(5)

\* C8: scatter then gather delivers each local value, also a list or a
\* mapping, unchanged and once: scatter makes one future per item, gather
\* emits the input value, and the sink has received exactly the inputs whose
\* processing reached it, in order; an item whose emit returned was delivered.
Delivered(s) == {i \in Items : pc[s][i] = "returned"}

RECURSIVE InOrder(_, _)
InOrder(I, k) ==
    IF k = 0 THEN <<>>
    ELSE IF k \in I THEN Append(InOrder(I, k - 1), inputs[k]) ELSE InOrder(I, k - 1)

C8_ScatterGatherRoundTrip ==
    /\ \A n \in Nodes, i \in Items :
        /\ (IsKind(n, "scatter") /\ Emitted(n, i)) => Cardinality(MadeBy(n, i)) = 1
        /\ (IsKind(n, "gather") /\ Emitted(n, i)) => outv[n][i] = inputs[i]
        /\ IsKind(n, "sink") => sunk[n] = InOrder(Delivered(n), Len(inputs))
    /\ \A i \in Items : (\A s \in Sources : pc[s][i] = "returned") =>
        \A n \in Nodes : IsKind(n, "sink") => i \in Delivered(n)

\* a list and a mapping made the round trip
C8_Witness ==
    \E n \in Nodes :
        /\ IsKind(n, "sink")
        /\ sunk[n] = <<ListV(<<1, 2>>), DictV(<<2, 1>>)>>
        /\ \A s \in Sources : pc[s][2] = "returned"

\* ------------------------------------------------------------ properties of accumulate
RECURSIVE LeftFold(_)
LeftFold(k) == IF k = 1 THEN inputs[1] ELSE binop(<<LeftFold(k - 1), inputs[k]>>)

\* a value resolves to r: it is r, or a finished future that holds r
ResolvesTo(x, r) == IF x.k = "fut" THEN futs[x.v[1]].st = "finished" => futs[x.v[1]].res = r ELSE x = r

\* the number of items accumulate has taken
Taken(n) == Cardinality({i \in Items : Emitted(n, i)})

PlainFold == cfg.start = NoDefault /\ ~cfg.returns_state /\ ~cfg.with_state

\* C6: with no start value and a function returning the new state, the first
\* output is x0 itself, the k-th output is a handle that resolves to the left
\* fold of the first k inputs, the state after N items resolves to the left
\* fold of the first N inputs, and what the sink receives for item k is that fold.
C6_FoldIsLeftFold ==
    PlainFold =>
        \A n \in Nodes :
            /\ IsKind(n, "accumulate") =>
                /\ \A i \in Items : Emitted(n, i) =>
                    /\ i = 1 => outv[n][i] = inputs[1]
                    /\ i > 1 => outv[n][i].k = "fut"
                    /\ ResolvesTo(outv[n][i], LeftFold(i))
                /\ Taken(n) = 0 => state[n] = NoDefault
                /\ Taken(n) = 1 => state[n] = inputs[1]
                /\ Taken(n) > 1 => state[n].k = "fut"
                /\ Taken(n) > 0 => ResolvesTo(state[n], LeftFold(Taken(n)))
            /\ IsKind(n, "sink") =>
                \A i \in Items : pc[n][i] = "returned" => val[n][i] = LeftFold(i)

\* inputs [1, 2, 3] with f(s, x) = s + x gave the outputs [1, 3, 6]
C6_Witness ==
    /\ PlainFold
    /\ inputs = <<IntV(1), IntV(2), IntV(3)>>
    /\ \E n \in Nodes : IsKind(n, "sink") /\ sunk[n] = <<IntV(1), IntV(3), IntV(6)>>
    /\ \E n \in Nodes : IsKind(n, "accumulate") /\ Taken(n) = 3
        /\ state[n].k = "fut" /\ futs[state[n].v[1]].res = IntV(6)

\* ------------------------------------------------------------ properties of the whole graph
\* the update is suspended on a remote computation that has not completed
BlockedOnRemote(n, i) ==
    /\ pc[n][i] = "waiting"
    /\ \E f \in (IF wait[n][i] # 0 THEN {wait[n][i]} ELSE FutsIn(val[n][i])) :
        futs[f].st = "pending"

\* C9 as stated: only gather is ever suspended on a remote computation.
C9_OnlyGatherBlocks ==
    \A n \in Nodes, i \in Items : BlockedOnRemote(n, i) => IsKind(n, "gather")

\* C9, amended: only gather and filter are ever suspended on a remote
\* computation; map, starmap, accumulate and scatter never are.
C9_OnlyGatherAndFilterBlock ==
    \A n \in Nodes, i \in Items :
        BlockedOnRemote(n, i) => cfg.kind[n] \in {"gather", "filter"}

\* the filter is suspended on its pending predicate while the map, starmap
\* and scatter upstream of it wait on their emission
C9_Witness ==
    \E n \in Nodes, i \in Items :
        /\ IsKind(n, "filter")
        /\ BlockedOnRemote(n, i)
        /\ \A m \in Nodes : cfg.kind[m] \in {"scatter", "starmap", "map"} => pc[m][i] = "emitting"

\* ------------------------------------------------------------ properties of the buffered gather
\* items whose computation the map has submitted and gather has not resolved
InFlight ==
    {i \in Items :
        /\ \E m \in Nodes : IsKind(m, "map") /\ MadeBy(m, i) # {}
        /\ \A g \in Nodes : IsKind(g, "gather") => pc[g][i] \in {"idle", "called", "waiting"}}

\* C10 as stated: never more than n submissions are in flight.
C10_InFlightAtMostN == Cardinality(InFlight) <= cfg.n

\* C10, amended: never more than n + 2 submissions are in flight: n in the
\* buffer, one that gather is resolving, and one that the map submitted
\* before its emission waits on the full buffer.
C10_InFlightAtMostNPlus2 == Cardinality(InFlight) <= cfg.n + 2

\* the buffer is full, gather waits on one item and the map waits to put another
C10_Witness ==
    /\ Cardinality(InFlight) = cfg.n + 2
    /\ Len(queue) = cfg.n
    /\ \E n \in Nodes, i \in Items : IsKind(n, "buffer") /\ pc[n][i] = "putting"
    /\ \E n \in Nodes, i \in Items : IsKind(n, "gather") /\ pc[n][i] = "waiting"

\* ------------------------------------------------------------ the tokens across the boundary operators
\* C11: scatter and gather hold their retain from the start of the remote
\* call (the transfer, the resolution) until the emission of the result has
\* completed: while the update is in the remote call or in the emission it has
\* retained and not released, the counter is positive and the token is not
\* acknowledged; it has released only once it has returned with every
\* downstream update of the item completed.
C11_HeldFromRemoteCallToEmissionEnd ==
    \A n \in Boundary, i \in Items :
        /\ pc[n][i] \in {"scattering", "waiting", "emitting"} =>
            /\ nret[n][i] = 1 /\ nrel[n][i] = 0
            /\ refs[i].cnt >= 1
            /\ refs[i].ack = 0
        /\ nrel[n][i] > 0 =>
            /\ pc[n][i] = "returned"
            /\ Emitted(n, i)
            /\ \A d \in cfg.down[n] : pc[d][i] \in Done

\* gather has emitted the resolved value and the sink has not run yet, while
\* scatter still waits on its own emission: both hold the token
C11_Witness ==
    \E g, sc \in Boundary, i \in Items :
        /\ IsKind(g, "gather") /\ pc[g][i] = "emitting"
        /\ IsKind(sc, "scatter") /\ pc[sc][i] = "emitting"
        /\ \E d \in cfg.down[g] : pc[d][i] = "called"
        /\ Holds(g, i) /\ Holds(sc, i)
        /\ refs[i].ack = 0

\* ------------------------------------------------------------ one update at a time
\* an update of node n for item i that has started and not completed
Active(n, i) == pc[n][i] \notin ({"idle"} \cup Done)

\* C12: on every node below the source (each has one upstream) the update for
\* a later item has not started while the update for an earlier item is
\* active, so no node has two active updates at any time; the filter
\* included.
C12_OneUpdateAtATime ==
    \A n \in Nodes \ Sources : \A i, j \in Items :
        (i < j /\ pc[n][j] # "idle") => ~Active(n, i)

\* the filter has completed item 1 and is suspended on the predicate of item 2,
\* while a node further down has also seen both items
C12_Witness ==
    \E n, m \in Nodes \ Sources : \E i, j \in Items :
        /\ IsKind(n, "filter") /\ i < j
        /\ pc[n][i] \in Done /\ pc[n][j] = "waiting"
        /\ IsKind(m, "map") /\ pc[m][i] \in Done /\ Active(m, j)

\* ------------------------------------------------------------ the linear pipeline end to end
\* func applied locally to the inputs of the index set I, in input order
RECURSIVE Outputs(_, _)
Outputs(I, k) ==
    IF k = 0 THEN <<>>
    ELSE IF k \in I THEN Append(Outputs(I, k - 1), func(<<inputs[k]>> \o cfg.args))
    ELSE Outputs(I, k - 1)

\* C13: in source -> scatter -> map(func) -> gather -> sink the sink has
\* received, for the inputs that reached it, exactly one resolved value
\* func(x) each and in input order; an input whose emit returned has reached
\* the sink, so a run in which every emit returned has delivered func of every
\* input in order ([1, 2, 3] gives [2, 4, 6]).
C13_SinkGetsResolvedOutputsInOrder ==
    \A n \in Nodes : IsKind(n, "sink") =>
        /\ sunk[n] = Outputs(Delivered(n), Len(inputs))
        /\ \A i \in Items :
            (\A s \in Sources : pc[s][i] = "returned") => i \in Delivered(n)
        /\ (\A i \in Items : \A s \in Sources : pc[s][i] = "returned") =>
            /\ Len(sunk[n]) = Len(inputs)
            /\ \A i \in Items : sunk[n][i] = IntV(2 * inputs[i].v[1])

\* inputs [1, 2, 3] have all been processed and the sink holds [2, 4, 6]
C13_Witness ==
    \E n \in Nodes :
        /\ IsKind(n, "sink")
        /\ inputs = <<IntV(1), IntV(2), IntV(3)>>
        /\ sunk[n] = <<IntV(2), IntV(4), IntV(6)>>
        /\ \A i \in Items : \A s \in Sources : pc[s][i] = "returned"

\* ------------------------------------------------------------ accumulate with its options
\* what the first item looks like when it is emitted as it came
Unchanged(x) == IF cfg.with_state THEN TupleV(x, x) ELSE x

\* the first item went around the cluster: nothing submitted, the item is the
\* state while no other item has been taken, and it is emitted as it came
Bypassed(n) ==
    Emitted(n, 1) =>
        /\ MadeBy(n, 1) = {}
        /\ outv[n][1] = Unchanged(inputs[1])
        /\ Taken(n) = 1 => state[n] = inputs[1]

\* C14 as stated: the first item bypasses the cluster whether or not the node
\* was given a start value.
C14_FirstItemBypassesRemote ==
    \A n \in Nodes : IsKind(n, "accumulate") => Bypassed(n)

\* C14: the first item bypasses the cluster when the node has no start value;
\* with a start value the first item is submitted as func(start, x) like every
\* other item, and the state and the output are handles.
C14_FirstItemBypassesRemoteWithoutStart ==
    \A n \in Nodes : IsKind(n, "accumulate") =>
        /\ cfg.start = NoDefault => Bypassed(n)
        /\ (cfg.start # NoDefault /\ Emitted(n, 1)) =>
            /\ \E id \in MadeBy(n, 1) :
                /\ futs[id].fn = "accumulate.func"
                /\ futs[id].args = <<cfg.start, inputs[1]>>
            /\ state[n].k = "fut"
            /\ outv[n][1] # Unchanged(inputs[1])

\* with no start value and with_state the pair (x, x) reached the sink and no
\* future exists
C14_Witness ==
    \E n, k \in Nodes :
        /\ IsKind(n, "accumulate") /\ IsKind(k, "sink")
        /\ cfg.start = NoDefault /\ cfg.with_state
        /\ pc[n][1] = "returned"
        /\ state[n] = inputs[1]
        /\ sunk[k] = <<TupleV(inputs[1], inputs[1])>>
        /\ futs = <<>>

\* the state f(s, x) leaves behind: f(s, x) itself, or its element 0 when
\* returns_state
StepState(s, x) ==
    IF cfg.returns_state
    THEN getitem(<<binop_rs(<<s, x>>), IntV(0)>>)
    ELSE binop(<<s, x>>)

\* the state after the first k items, computed locally from the start value
RECURSIVE StateFold(_)
StateFold(k) ==
    IF k = 0 THEN cfg.start
    ELSE IF StateFold(k - 1) = NoDefault THEN inputs[k]
    ELSE StepState(StateFold(k - 1), inputs[k])

\* self.state is the new-state handle accumulate made for item i
StateIsOf(n, i) ==
    /\ state[n].k = "fut"
    /\ state[n].v[1] \in MadeBy(n, i)
    /\ ResolvesTo(state[n], StateFold(i))

\* C15: for every item that accumulate submitted, self.state is that item's
\* new-state handle (resolving to the fold over the items up to it) at every
\* moment a downstream update for the item is active, and stays so until the
\* next item is taken; it is never the state the item was folded into.
C15_StateSetBeforeEmit ==
    \A n \in Nodes, i \in Items : (IsKind(n, "accumulate") /\ MadeBy(n, i) # {}) =>
        /\ \A d \in cfg.down[n] : Active(d, i) => StateIsOf(n, i)
        /\ (\A j \in Items : j > i => ~Emitted(n, j)) => StateIsOf(n, i)
        /\ \A id \in MadeBy(n, i) :
            (futs[id].fn = "accumulate.func" /\ \E d \in cfg.down[n] : Active(d, i)) =>
                state[n] # futs[id].args[1]

\* gather is resolving the output of item 2 while the state handle of item 2
\* has already finished with the fold over two items
C15_Witness ==
    \E n \in Nodes :
        /\ IsKind(n, "accumulate")
        /\ \E d \in cfg.down[n] : pc[d][2] = "waiting"
        /\ StateIsOf(n, 2)
        /\ futs[state[n].v[1]].st = "finished"
        /\ futs[state[n].v[1]].res = IntV(inputs[1].v[1] + inputs[2].v[1])

\* C16: with returns_state, every item accumulate submits makes exactly three
\* futures: one func(S, x), and getitem(that, 0) and getitem(that, 1); the
\* state is the handle of getitem 0 and resolves to element 0 of f(S, x), the
\* output is the handle of getitem 1 (paired with the state when with_state)
\* and resolves to element 1 of f(S, x).
C16_StateIsElement0OutputIsElement1 ==
    cfg.returns_state =>
        \A n \in Nodes, i \in Items : (IsKind(n, "accumulate") /\ MadeBy(n, i) # {}) =>
            \E r, a, b \in MadeBy(n, i) :
                /\ MadeBy(n, i) = {r, a, b} /\ Cardinality({r, a, b}) = 3
                /\ futs[r].fn = "accumulate.func" /\ futs[r].args[2] = inputs[i]
                /\ futs[a].fn = "getitem" /\ futs[a].args = <<FutV(r), IntV(0)>>
                /\ futs[b].fn = "getitem" /\ futs[b].args = <<FutV(r), IntV(1)>>
                /\ (\A j \in Items : j > i => ~Emitted(n, j)) => state[n] = FutV(a)
                /\ outv[n][i] = (IF cfg.with_state THEN TupleV(FutV(a), FutV(b)) ELSE FutV(b))
                /\ futs[a].st = "finished" =>
                    futs[a].res = IntV(binop_rs(<<StateFold(i - 1), inputs[i]>>).v[1])
                /\ futs[b].st = "finished" =>
                    futs[b].res = IntV(binop_rs(<<StateFold(i - 1), inputs[i]>>).v[2])

\* inputs [2, 3] and no start value: f(2, 3) = (5, 6), the state resolved to 5
\* and the sink received 6 for the second item
C16_Witness ==
    \E n, k \in Nodes :
        /\ IsKind(n, "accumulate") /\ IsKind(k, "sink")
        /\ cfg.returns_state /\ ~cfg.with_state /\ cfg.start = NoDefault
        /\ inputs = <<IntV(2), IntV(3)>>
        /\ state[n].k = "fut" /\ futs[state[n].v[1]].res = IntV(5)
        /\ sunk[k] = <<IntV(2), IntV(6)>>

\* ------------------------------------------------------------ a resolution that does not complete
\* the nodes of a chain above node g (a chain is numbered along its edges)
Above(g) == {m \in Nodes : m < g /\ cfg.kind[m] # "none"}

\* everything waits on gather's item i: nothing emitted or released, the token
\* unacknowledged, every update above suspended in its emission, nothing below
\* called, and no later item anywhere in the graph
StalledOn(g, i) ==
    /\ ~Emitted(g, i)
    /\ nret[g][i] = 1 /\ nrel[g][i] = 0
    /\ refs[i].cnt >= 1 /\ refs[i].ack = 0
    /\ \A m \in Above(g) : pc[m][i] = "emitting"
    /\ \A d \in cfg.down[g] : pc[d][i] = "idle"
    /\ \A m \in Nodes, j \in Items : j > i => pc[m][j] = "idle"

\* C17: while a future that gather awaits is pending, gather and everything
\* above it are stalled on the item, and gather's update leaves the await only
\* in a step that finds none of the awaited futures pending; so for as long as
\* the resolution does not complete the update does not return, nothing is
\* emitted or released or acknowledged, no upstream update returns and no
\* later item reaches gather.
C17_GatherStallsWhilePending ==
    /\ [](\A g \in Nodes, i \in Items :
            (IsKind(g, "gather") /\ BlockedOnRemote(g, i)) => StalledOn(g, i))
    /\ [][\A g \in Nodes, i \in Items :
            (IsKind(g, "gather") /\ pc[g][i] = "waiting" /\ pc'[g][i] # "waiting") =>
                \A f \in FutsIn(val[g][i]) : futs[f].st # "pending"]_vars

\* gather waits on the pending future of the first of two items: scatter, map
\* and the source are suspended and the second item has not been emitted
C17_Witness ==
    \E g \in Nodes :
        /\ IsKind(g, "gather") /\ BlockedOnRemote(g, 1)
        /\ Len(inputs) = 2
        /\ Cardinality(Above(g)) = 3
        /\ StalledOn(g, 1)

\* ------------------------------------------------------------ every token is acknowledged in the end
\* every emit of the source has ended
AllProcessed == \A s \in Sources, i \in Items : pc[s][i] \in Done

\* no operator holds a retain
AllReleased == \A b \in Retainers, i \in Items : ~Holds(b, i)

\* every token is acknowledged and no counter is left
TableEmpty == \A i \in Items : refs[i].cnt = 0 /\ refs[i].ack = 1

\* C18: on a cluster where everything completes and with a sink that returns,
\* every run of source -> scatter -> map -> filter -> gather -> sink ends with
\* all items processed, every retain of scatter, filter and gather released,
\* every token acknowledged and no counter left; and in any state where all
\* items have been processed the table is already empty.
C18_EveryTokenAcknowledged ==
    /\ [](AllProcessed => (AllReleased /\ TableEmpty))
    /\ <>[](AllProcessed /\ AllReleased /\ TableEmpty)

\* two items are done: the filter dropped one, the other went through gather to
\* the sink, and scatter, filter and gather each released what they retained
C18_Witness ==
    /\ Len(inputs) = 2
    /\ AllProcessed /\ AllReleased /\ TableEmpty
    /\ \E f, g, sc, k \in Nodes :
        /\ IsKind(f, "filter") /\ IsKind(g, "gather") /\ IsKind(sc, "scatter")
        /\ IsKind(k, "sink")
        /\ \E i, j \in Items :
            /\ ~Emitted(f, i) /\ nrel[f][i] = 1 /\ nrel[sc][i] = 1 /\ nret[g][i] = 0
            /\ Emitted(f, j) /\ nrel[f][j] = 1 /\ nrel[sc][j] = 1 /\ nrel[g][j] = 1
            /\ Len(sunk[k]) = 1

\* ------------------------------------------------------------ accumulate after a failure
\* the state accumulate had after it took item k: the item itself when it
\* bypassed the cluster, the new-state handle submitted for it otherwise
StateAfter(n, k) ==
    IF MadeBy(n, k) = {} THEN inputs[k]
    ELSE FutV(CHOOSE id \in MadeBy(n, k) :
            IF cfg.returns_state
            THEN futs[id].fn = "getitem" /\ futs[id].args[2] = IntV(0)
            ELSE futs[id].fn = "accumulate.func")

\* the update for item i ended with an exception from the emission, or the
\* computation of its new state failed on the cluster
FailedAt(n, i) ==
    \/ pc[n][i] = "raised"
    \/ \E id \in MadeBy(n, i) : futs[id].st = "error"

\* C19: whatever became of item N (its emission raised, its computation failed
\* on the cluster, or neither), the state after it is its new-state handle for
\* as long as no later item is taken, and the submission for item N + 1 has
\* that handle as its state argument.
C19_NoRollback ==
    \A n \in Nodes, i \in Items : (IsKind(n, "accumulate") /\ Emitted(n, i)) =>
        /\ (\A j \in Items : j > i => ~Emitted(n, j)) => state[n] = StateAfter(n, i)
        /\ (i + 1 \in Items /\ Emitted(n, i + 1)) =>
            \E id \in MadeBy(n, i + 1) :
                /\ futs[id].fn = "accumulate.func"
                /\ futs[id].args = <<StateAfter(n, i), inputs[i + 1]>>

\* the emission for item 2 raised although its computation finished, the
\* emission for item 3 raised because its computation failed, item 3 was
\* submitted with the handle of item 2, and the state is the handle of item 3
C19_Witness ==
    \E n \in Nodes :
        /\ IsKind(n, "accumulate")
        /\ pc[n][2] = "raised" /\ futs[StateAfter(n, 2).v[1]].st = "finished"
        /\ pc[n][3] = "raised" /\ futs[StateAfter(n, 3).v[1]].st = "error"
        /\ FailedAt(n, 2) /\ FailedAt(n, 3)
        /\ \E id \in MadeBy(n, 3) : futs[id].args[1] = StateAfter(n, 2)
        /\ state[n] = StateAfter(n, 3)

====
